---- MODULE Spec2Model ----
(***************************************************************************)
(* The plan -> edit -> critique workflow of streetview-counterfactual:     *)
(* the two LangGraph workflows of src/workflow/graph.py, their node        *)
(* functions (src/workflow/nodes), the accumulated AgentState              *)
(* (src/workflow/state.py) and the baseline editor's retry / mock-fallback *)
(* policy (ReplicateClient.image_edit_baseline).                           *)
(*                                                                         *)
(* Python values: None is the string "None"; a dict is a function whose    *)
(* DOMAIN is its set of keys; paths, plans and notes are short strings.    *)
(***************************************************************************)
EXTENDS Integers, Sequences, FiniteSets, TLC

VARIABLES
    variant,                 \* "baseline" (build_baseline_workflow) or "full" (build_workflow)
    max_attempts,            \* cfg.workflow.max_attempts
    mock,                    \* ReplicateModels.mock
    baseline_model,          \* cfg.workflow.baseline_model
    max_retries,             \* the max_retries argument of image_edit_baseline
    node,                    \* the graph node about to run; "END"; "error" once a node raised
    state,                   \* the accumulated AgentState of the run
    last_baseline_used_mock, \* ReplicateClient.last_baseline_used_mock
    clock,                   \* time: advances with every ReplicateClient call
    edit,                    \* record of the most recent editor call (inputs consumed, result)
    planner_in,              \* arguments of the most recent Planner.propose_edit call
    critique,                \* what the most recent critic node execution returned
    plan,                    \* what the most recent Planner.propose_edit call did (PlanResult)
    output_img,              \* the image file at output_path and what _match_size did to it
    batch,                   \* a driver's loop over the input images: progress, rows, report
    hist                     \* run history: counters of calls and completed iterations

vars == << variant, max_attempts, mock, baseline_model, max_retries, node, state,
           last_baseline_used_mock, clock, edit, planner_in, critique, plan, output_img,
           batch, hist >>

None == "None"

\* None where the value, when present, is a str kept as its characters
NoneText == <<None>>

\* ------------------------------------------------------------------ bounds
MaxAttemptsArg == 2      \* max_attempts ranges over -1 .. MaxAttemptsArg
MaxRetriesArg == 3       \* max_retries of a direct editor call ranges over 0 .. MaxRetriesArg
MaxClock == 3            \* direct editor calls stop at this time
MaxRawWords == 5         \* words in a raw target_object text
MaxDim == 4              \* image widths and heights range over 1 .. MaxDim
MaxImages == 3           \* input images of a batch range over 0 .. MaxImages
MaxRuns == 2             \* images whose runs are stepped in any order: 1 .. MaxRuns

\* ------------------------------------------------------- program constants
DefaultMaxRetries == 3
RetryBaseDelay == 1

Min(a, b) == IF a < b THEN a ELSE b
Max(a, b) == IF a > b THEN a ELSE b

\* Python truthiness of an Optional[str]
TruthyStr(v) == v # None /\ v # ""

\* --------------------------------------------------------------- AgentState
\* The keys the TypedDict declares. The graph is built as StateGraph(AgentState):
\* it keeps one channel per declared key, so a key outside this set is neither
\* stored from the initial dict nor from a node's returned dict, and a node or
\* router reading it with state.get(k) sees None.
AgentStateKeys ==
    { "image_path", "target_attribute", "edit_plan", "target_object", "mask_path",
      "edited_image_path", "attempts", "is_realistic", "critic_notes" }

\* state.get(k) on an Optional[str] field
GetStr(st, k) == IF k \in DOMAIN st THEN st[k] ELSE None

\* bool(state.get(k)) on a flag
GetFlag(st, k) == IF k \in DOMAIN st THEN st[k] ELSE FALSE

\* state.get("attempts", 0)
GetAttempts(st) == IF "attempts" \in DOMAIN st THEN st["attempts"] ELSE 0

\* mutant: the critic's notes are not stored
Merge_drops_notes(st, delta) ==
    [k \in DOMAIN st |->
        IF k \in DOMAIN delta /\ k # "critic_notes" THEN delta[k] ELSE st[k]]

\* The graph folds a node's returned dict into the accumulated state: a declared
\* key takes the returned value, every other declared key keeps its value.
Merge(st, delta) ==
    [k \in DOMAIN st |-> IF k \in DOMAIN delta THEN delta[k] ELSE st[k]]

\* The dict each driver passes to app.invoke / app.stream, as the graph stores it.
InitialDict(image_path, target_attribute) ==
    [ image_path |-> image_path, target_attribute |-> target_attribute,
      edit_plan |-> None, target_object |-> NoneText, mask_path |-> None,
      edited_image_path |-> None, attempts |-> 0, is_realistic |-> FALSE,
      is_minimal_edit |-> FALSE ]

InitialState(image_path, target_attribute) ==
    [k \in AgentStateKeys |->
        IF k \in DOMAIN InitialDict(image_path, target_attribute)
        THEN InitialDict(image_path, target_attribute)[k]
        ELSE None]   \* critic_notes: no value yet, state.get gives None

\* ------------------------------------------------- text (Python str methods)
\* A str is the sequence of its characters; None is the one-element NoneText.

Whitespace == { " ", "\t" }

UpperCase == <<"A","B","C","D","E","F","G","H","I","J","K","L","M",
               "N","O","P","Q","R","S","T","U","V","W","X","Y","Z">>
LowerCase == <<"a","b","c","d","e","f","g","h","i","j","k","l","m",
               "n","o","p","q","r","s","t","u","v","w","x","y","z">>

lower_char(c) ==
    IF \E i \in 1..Len(UpperCase) : UpperCase[i] = c
    THEN LowerCase[CHOOSE i \in 1..Len(UpperCase) : UpperCase[i] = c]
    ELSE c

lower(s) == [i \in 1..Len(s) |-> lower_char(s[i])]

RECURSIVE lstrip(_, _)
lstrip(s, chars) ==
    IF Len(s) > 0 /\ Head(s) \in chars THEN lstrip(Tail(s), chars) ELSE s

RECURSIVE rstrip(_, _)
rstrip(s, chars) ==
    IF Len(s) > 0 /\ s[Len(s)] \in chars
    THEN rstrip(SubSeq(s, 1, Len(s) - 1), chars)
    ELSE s

strip(s) == rstrip(lstrip(s, Whitespace), Whitespace)

startswith(s, prefix) ==
    Len(s) >= Len(prefix) /\ SubSeq(s, 1, Len(prefix)) = prefix

occurs_at(s, sep, i) ==
    i + Len(sep) - 1 <= Len(s) /\ SubSeq(s, i, i + Len(sep) - 1) = sep

\* s.find(sep) + 1: the first position of sep in s, 0 when sep is not in s
find(s, sep) ==
    IF \E i \in 1..Len(s) : occurs_at(s, sep, i)
    THEN CHOOSE i \in 1..Len(s) :
            occurs_at(s, sep, i) /\ \A j \in 1..(i - 1) : ~occurs_at(s, sep, j)
    ELSE 0

\* s.split(sep, 1)[0] and s.split(sep, 1)[1], for sep in s
split_head(s, sep) == SubSeq(s, 1, find(s, sep) - 1)
split_tail(s, sep) == SubSeq(s, find(s, sep) + Len(sep), Len(s))

\* s.replace(c, "") for each character c of chars
RECURSIVE remove_chars(_, _)
remove_chars(s, chars) ==
    IF Len(s) = 0 THEN <<>>
    ELSE IF Head(s) \in chars THEN remove_chars(Tail(s), chars)
    ELSE <<Head(s)>> \o remove_chars(Tail(s), chars)

\* s.split(): the maximal runs of non-whitespace characters
RECURSIVE split_words(_)
split_words(s) ==
    LET t == lstrip(s, Whitespace)
        stop == IF \E i \in 1..Len(t) : t[i] \in Whitespace
                THEN CHOOSE i \in 1..Len(t) :
                        t[i] \in Whitespace /\ \A j \in 1..(i - 1) : t[j] \notin Whitespace
                ELSE Len(t) + 1
    IN  IF Len(t) = 0 THEN <<>>
        ELSE <<SubSeq(t, 1, stop - 1)>> \o split_words(SubSeq(t, stop, Len(t)))

\* " ".join(words)
RECURSIVE join_words(_)
join_words(words) ==
    IF Len(words) = 0 THEN <<>>
    ELSE IF Len(words) = 1 THEN words[1]
    ELSE words[1] \o <<" ">> \o join_words(Tail(words))

\* ------------------------------------------------- ReplicateClient (editor)
SupportedModels ==
    { "google/nano-banana-pro", "bytedance/seedream-4", "openai/gpt-image-1.5",
      "black-forest-labs/flux-kontext-max" }

Models == SupportedModels \cup { "unknown/model" }

\* What one pass through the try block of the retry loop does:
\*   "ok"  client.run returned;
\*   "err" client.run raised ReplicateError or ModelError;
\*   "exc" client.run raised any other exception;
\*   "io"  open(image_path) raised, before anything was sent.
Outcomes == { "ok", "err", "exc", "io" }

\* The consumed part of any outcome sequence is a run of "err" followed by one
\* other outcome: the sequence with k leading transient errors, then t for ever.
OutcomeSeq(k, t) == [i \in 1..(MaxRetriesArg + DefaultMaxRetries) |-> IF i <= k THEN "err" ELSE t]

\* What client.run may return, by Python type:
\*   "file" a replicate FileOutput, "url" a str naming a fetchable URL,
\*   "badstr" a str that is no fetchable URL, "readable" another object with
\*   read(), "none" None, "int" any other scalar (int, dict, ...).
\* A payload is such a value or a list/tuple of them.
ResultKinds == { "file", "url", "badstr", "readable", "none", "int" }

Scalar(kind) == [list |-> FALSE, items |-> <<kind>>]
ListOf(items) == [list |-> TRUE, items |-> items]

Payloads ==
    { Scalar(k) : k \in ResultKinds }
        \cup { ListOf(<<>>) }
        \cup { ListOf(<<k>>) : k \in ResultKinds }
        \cup { ListOf(<<"int", "url">>), ListOf(<<"file", "int">>) }

Unused == Scalar("unused")

\* _build_baseline_payload raises ValueError on a model it does not know.
\* (models.flux_kontext_model is one of the supported identifiers here.)
_build_baseline_payload_ok(model) == model \in SupportedModels

\* The output_format member of models.flux_kontext_params, as its characters
\* (NoneText when the params declare none).
FluxFormats == { NoneText, <<"p", "n", "g">>, <<"j", "p", "g">>, <<"j", "p", "e", "g">>, <<"J", "P", "G">>, <<"J", "p", "e", "g">>, <<"w", "e", "b", "p">>, <<>> }

\* mutant: the alternate key of openai/gpt-image-1.5 is never used
_build_baseline_payload_no_alt(model, use_alt, flux_format) ==
    CASE model = "google/nano-banana-pro" ->
           [ok |-> TRUE, image_key |-> "image_input", output_format |-> <<"p", "n", "g">>]
      [] model = "bytedance/seedream-4" ->
           [ok |-> TRUE, image_key |-> "image_input", output_format |-> NoneText]
      [] model = "openai/gpt-image-1.5" ->
           [ok |-> TRUE, image_key |-> "input_images", output_format |-> <<"p", "n", "g">>]
      [] model = "black-forest-labs/flux-kontext-max" ->
           [ok |-> TRUE, image_key |-> "input_image", output_format |-> flux_format]
      [] OTHER -> [ok |-> FALSE, image_key |-> None, output_format |-> NoneText]

\* _build_baseline_payload: the key the image is sent under and
\* payload.get("output_format"); ok is FALSE where it raises ValueError.
_build_baseline_payload(model, use_alt, flux_format) ==
    CASE model = "google/nano-banana-pro" ->
           [ok |-> TRUE, image_key |-> "image_input", output_format |-> <<"p", "n", "g">>]
      [] model = "bytedance/seedream-4" ->
           [ok |-> TRUE, image_key |-> "image_input", output_format |-> NoneText]
      [] model = "openai/gpt-image-1.5" ->
           [ok |-> TRUE, image_key |-> IF use_alt THEN "image" ELSE "input_images",
            output_format |-> <<"p", "n", "g">>]
      [] model = "black-forest-labs/flux-kontext-max" ->
           [ok |-> TRUE, image_key |-> "input_image", output_format |-> flux_format]
      [] OTHER -> [ok |-> FALSE, image_key |-> None, output_format |-> NoneText]

_normalize_result(result) ==
    IF result.list /\ Len(result.items) > 0 THEN Scalar(result.items[1]) ELSE result

\* _write_output: "true" once the file is written, "false" for a type it does not
\* handle, "raise" when _download_url fails on a str that cannot be fetched.
_write_output(result) ==
    IF result.list THEN "false"
    ELSE CASE result.items[1] = "file" -> "true"
           [] result.items[1] = "url" -> "true"
           [] result.items[1] = "badstr" -> "raise"
           [] result.items[1] = "readable" -> "true"
           [] OTHER -> "false"

\* mutant: the format is compared without lowering its case
_suffix_from_format_case(output_format) ==
    IF output_format # NoneText /\ Len(output_format) > 0
       /\ output_format \in { <<"j", "p", "g">>, <<"j", "p", "e", "g">> }
    THEN ".jpg" ELSE ".png"

_suffix_from_format(output_format) ==
    IF output_format # NoneText /\ Len(output_format) > 0
       /\ lower(output_format) \in { <<"j", "p", "g">>, <<"j", "p", "e", "g">> }
    THEN ".jpg" ELSE ".png"

timestamped_path(stem, clk) == stem \o "_" \o ToString(clk)

\* mutant: the last transient error is re-raised instead of falling back
RECURSIVE retry_loop_reraises(_, _, _, _, _)
retry_loop_reraises(model, flux_format, retries, outcomes, attempt) ==
    LET built == _build_baseline_payload(model,
                     model = "openai/gpt-image-1.5" /\ attempt > 1, flux_format)
    IN
    IF attempt > retries
    THEN [exit |-> "fallthrough", log |-> <<>>, calls |-> 0, sleeps |-> <<>>, keys |-> <<>>,
          output_format |-> NoneText]
    ELSE IF outcomes[attempt] = "io"
    THEN [exit |-> "raise", log |-> <<"io">>, calls |-> 0, sleeps |-> <<>>, keys |-> <<None>>,
          output_format |-> NoneText]
    ELSE IF ~built.ok
    THEN [exit |-> "raise", log |-> <<"ValueError">>, calls |-> 0, sleeps |-> <<>>,
          keys |-> <<None>>, output_format |-> NoneText]
    ELSE CASE outcomes[attempt] = "ok" ->
                [exit |-> "break", log |-> <<"ok">>, calls |-> 1, sleeps |-> <<>>,
                 keys |-> <<built.image_key>>, output_format |-> built.output_format]
           [] outcomes[attempt] = "exc" ->
                [exit |-> "raise", log |-> <<"exc">>, calls |-> 1, sleeps |-> <<>>,
                 keys |-> <<built.image_key>>, output_format |-> built.output_format]
           [] OTHER ->
                IF attempt >= retries
                THEN [exit |-> "raise", log |-> <<"err">>, calls |-> 1, sleeps |-> <<>>,
                 keys |-> <<built.image_key>>, output_format |-> built.output_format]
                ELSE LET delay == RetryBaseDelay * (2 ^ (attempt - 1))
                         rest == retry_loop_reraises(model, flux_format, retries, outcomes, attempt + 1)
                     IN  [exit |-> rest.exit, log |-> <<"err">> \o rest.log,
                          calls |-> 1 + rest.calls, sleeps |-> <<delay>> \o rest.sleeps,
                          keys |-> <<built.image_key>> \o rest.keys,
                          output_format |-> rest.output_format]

\* mutant: the delay does not grow with the attempt
RECURSIVE retry_loop_flat_delay(_, _, _, _, _)
retry_loop_flat_delay(model, flux_format, retries, outcomes, attempt) ==
    LET built == _build_baseline_payload(model,
                     model = "openai/gpt-image-1.5" /\ attempt > 1, flux_format)
    IN
    IF attempt > retries
    THEN [exit |-> "fallthrough", log |-> <<>>, calls |-> 0, sleeps |-> <<>>, keys |-> <<>>,
          output_format |-> NoneText]
    ELSE IF outcomes[attempt] = "io"
    THEN [exit |-> "raise", log |-> <<"io">>, calls |-> 0, sleeps |-> <<>>, keys |-> <<None>>,
          output_format |-> NoneText]
    ELSE IF ~built.ok
    THEN [exit |-> "raise", log |-> <<"ValueError">>, calls |-> 0, sleeps |-> <<>>,
          keys |-> <<None>>, output_format |-> NoneText]
    ELSE CASE outcomes[attempt] = "ok" ->
                [exit |-> "break", log |-> <<"ok">>, calls |-> 1, sleeps |-> <<>>,
                 keys |-> <<built.image_key>>, output_format |-> built.output_format]
           [] outcomes[attempt] = "exc" ->
                [exit |-> "raise", log |-> <<"exc">>, calls |-> 1, sleeps |-> <<>>,
                 keys |-> <<built.image_key>>, output_format |-> built.output_format]
           [] OTHER ->
                IF attempt >= retries
                THEN [exit |-> "mock", log |-> <<"err">>, calls |-> 1, sleeps |-> <<>>,
                 keys |-> <<built.image_key>>, output_format |-> built.output_format]
                ELSE LET delay == RetryBaseDelay
                         rest == retry_loop_flat_delay(model, flux_format, retries, outcomes, attempt + 1)
                     IN  [exit |-> rest.exit, log |-> <<"err">> \o rest.log,
                          calls |-> 1 + rest.calls, sleeps |-> <<delay>> \o rest.sleeps,
                          keys |-> <<built.image_key>> \o rest.keys,
                          output_format |-> rest.output_format]

\* The for loop of image_edit_baseline from `attempt` on.
\*   exit: "break" (a result is in hand), "mock" (retries exhausted), "raise"
\*         (an exception left the loop), "fallthrough" (range exhausted unentered);
\*   log: the outcome of each pass; calls: client.run invocations;
\*   sleeps: the delays slept, in order.
RECURSIVE retry_loop(_, _, _, _, _)
retry_loop(model, flux_format, retries, outcomes, attempt) ==
    LET built == _build_baseline_payload(model,
                     model = "openai/gpt-image-1.5" /\ attempt > 1, flux_format)
    IN
    IF attempt > retries
    THEN [exit |-> "fallthrough", log |-> <<>>, calls |-> 0, sleeps |-> <<>>, keys |-> <<>>,
          output_format |-> NoneText]
    ELSE IF outcomes[attempt] = "io"
    THEN [exit |-> "raise", log |-> <<"io">>, calls |-> 0, sleeps |-> <<>>, keys |-> <<None>>,
          output_format |-> NoneText]
    ELSE IF ~built.ok
    THEN [exit |-> "raise", log |-> <<"ValueError">>, calls |-> 0, sleeps |-> <<>>,
          keys |-> <<None>>, output_format |-> NoneText]
    ELSE CASE outcomes[attempt] = "ok" ->
                [exit |-> "break", log |-> <<"ok">>, calls |-> 1, sleeps |-> <<>>,
                 keys |-> <<built.image_key>>, output_format |-> built.output_format]
           [] outcomes[attempt] = "exc" ->
                [exit |-> "raise", log |-> <<"exc">>, calls |-> 1, sleeps |-> <<>>,
                 keys |-> <<built.image_key>>, output_format |-> built.output_format]
           [] OTHER ->
                IF attempt >= retries
                THEN [exit |-> "mock", log |-> <<"err">>, calls |-> 1, sleeps |-> <<>>,
                 keys |-> <<built.image_key>>, output_format |-> built.output_format]
                ELSE LET delay == RetryBaseDelay * (2 ^ (attempt - 1))
                         rest == retry_loop(model, flux_format, retries, outcomes, attempt + 1)
                     IN  [exit |-> rest.exit, log |-> <<"err">> \o rest.log,
                          calls |-> 1 + rest.calls, sleeps |-> <<delay>> \o rest.sleeps,
                          keys |-> <<built.image_key>> \o rest.keys,
                          output_format |-> rest.output_format]

\* mutant: the fallback for an unusable result does not set the flag
image_edit_baseline_unflagged(model, flux_format, retries, outcomes, payload, resize, clk) ==
    LET loop == retry_loop(model, flux_format, retries, outcomes, 1)
        named == loop.exit \in { "break", "fallthrough" }
        base == [model |-> model, max_retries |-> retries, log |-> loop.log,
                 calls |-> loop.calls, sleeps |-> loop.sleeps, keys |-> loop.keys,
                 output_format |-> IF named THEN loop.output_format ELSE NoneText,
                 suffix |-> IF named THEN _suffix_from_format(loop.output_format)
                            ELSE "unused"]
        result == IF loop.exit = "break" THEN payload ELSE Scalar("none")
        seen == IF loop.exit = "break" THEN payload ELSE Unused
        written == _write_output(_normalize_result(result))
    IN  CASE loop.exit = "raise" ->
               base @@ [ret |-> "raise", path |-> None, used_mock |-> FALSE,
                        payload |-> Unused, resize |-> "unused", files |-> 0]
          [] loop.exit = "mock" ->
               base @@ [ret |-> "mock", path |-> timestamped_path("mock", clk),
                        used_mock |-> TRUE, payload |-> Unused, resize |-> "unused",
                        files |-> 1]
          [] written = "raise" ->
               base @@ [ret |-> "raise", path |-> None, used_mock |-> FALSE,
                        payload |-> seen, resize |-> "unused", files |-> 1]
          [] written = "false" ->
               base @@ [ret |-> "mock", path |-> timestamped_path("mock", clk),
                        used_mock |-> FALSE, payload |-> seen, resize |-> "unused",
                        files |-> 2]
          [] OTHER ->
               base @@ [ret |-> "edited", path |-> timestamped_path("image_edit_baseline", clk),
                        used_mock |-> FALSE, payload |-> seen, resize |-> resize,
                        files |-> 1]

\* mutant: a failing _match_size is not caught
image_edit_baseline_resize_raises(model, flux_format, retries, outcomes, payload, resize, clk) ==
    LET loop == retry_loop(model, flux_format, retries, outcomes, 1)
        named == loop.exit \in { "break", "fallthrough" }
        base == [model |-> model, max_retries |-> retries, log |-> loop.log,
                 calls |-> loop.calls, sleeps |-> loop.sleeps, keys |-> loop.keys,
                 output_format |-> IF named THEN loop.output_format ELSE NoneText,
                 suffix |-> IF named THEN _suffix_from_format(loop.output_format)
                            ELSE "unused"]
        result == IF loop.exit = "break" THEN payload ELSE Scalar("none")
        seen == IF loop.exit = "break" THEN payload ELSE Unused
        written == _write_output(_normalize_result(result))
    IN  CASE loop.exit = "raise" ->
               base @@ [ret |-> "raise", path |-> None, used_mock |-> FALSE,
                        payload |-> Unused, resize |-> "unused", files |-> 0]
          [] loop.exit = "mock" ->
               base @@ [ret |-> "mock", path |-> timestamped_path("mock", clk),
                        used_mock |-> TRUE, payload |-> Unused, resize |-> "unused",
                        files |-> 1]
          [] written = "raise" ->
               base @@ [ret |-> "raise", path |-> None, used_mock |-> FALSE,
                        payload |-> seen, resize |-> "unused", files |-> 1]
          [] written = "false" ->
               base @@ [ret |-> "mock", path |-> timestamped_path("mock", clk),
                        used_mock |-> TRUE, payload |-> seen, resize |-> "unused",
                        files |-> 2]
          [] resize = "fail" ->
               base @@ [ret |-> "raise", path |-> None, used_mock |-> FALSE,
                        payload |-> seen, resize |-> resize, files |-> 1]
          [] OTHER ->
               base @@ [ret |-> "edited", path |-> timestamped_path("image_edit_baseline", clk),
                        used_mock |-> FALSE, payload |-> seen, resize |-> resize,
                        files |-> 1]

\* ReplicateClient.image_edit_baseline. The result records
\*   ret: "edited" (output_path returned), "mock" (_mock_inpaint's copy of the
\*        input returned), "raise" (an exception propagated);
\*   path: the returned path; used_mock: last_baseline_used_mock when the call ends;
\*   payload / resize: the backend result and the outcome of _match_size, where read;
\*   files: timestamped_path names taken.
image_edit_baseline(model, flux_format, retries, outcomes, payload, resize, clk) ==
    LET loop == retry_loop(model, flux_format, retries, outcomes, 1)
        named == loop.exit \in { "break", "fallthrough" }
        base == [model |-> model, max_retries |-> retries, log |-> loop.log,
                 calls |-> loop.calls, sleeps |-> loop.sleeps, keys |-> loop.keys,
                 output_format |-> IF named THEN loop.output_format ELSE NoneText,
                 suffix |-> IF named THEN _suffix_from_format(loop.output_format)
                            ELSE "unused"]
        result == IF loop.exit = "break" THEN payload ELSE Scalar("none")
        seen == IF loop.exit = "break" THEN payload ELSE Unused
        written == _write_output(_normalize_result(result))
    IN  CASE loop.exit = "raise" ->
               base @@ [ret |-> "raise", path |-> None, used_mock |-> FALSE,
                        payload |-> Unused, resize |-> "unused", files |-> 0]
          [] loop.exit = "mock" ->
               base @@ [ret |-> "mock", path |-> timestamped_path("mock", clk),
                        used_mock |-> TRUE, payload |-> Unused, resize |-> "unused",
                        files |-> 1]
          [] written = "raise" ->
               base @@ [ret |-> "raise", path |-> None, used_mock |-> FALSE,
                        payload |-> seen, resize |-> "unused", files |-> 1]
          [] written = "false" ->
               base @@ [ret |-> "mock", path |-> timestamped_path("mock", clk),
                        used_mock |-> TRUE, payload |-> seen, resize |-> "unused",
                        files |-> 2]
          [] OTHER ->
               base @@ [ret |-> "edited", path |-> timestamped_path("image_edit_baseline", clk),
                        used_mock |-> FALSE, payload |-> seen, resize |-> resize,
                        files |-> 1]

NoEdit ==
    [model |-> None, max_retries |-> 0, log |-> <<>>, calls |-> 0, sleeps |-> <<>>,
     keys |-> <<>>, output_format |-> NoneText, suffix |-> "unused", ret |-> "none",
     path |-> None, used_mock |-> FALSE, payload |-> Unused, resize |-> "unused",
     files |-> 0]

\* ------------------------------------------------- _sanitize_target_object
ObjectText == <<"o", "b", "j", "e", "c", "t">>

CutSeparators == << <<"(">>, <<"[">>, <<"{">>, <<" ", "-", " ">>, <<":">>, <<";">> >>

ClauseSeparators == << <<" ", "w", "i", "t", "h", " ">>, <<" ", "f", "e", "a", "t", "u", "r", "i", "n", "g", " ">>, <<" ", "t", "h", "a", "t", " ">>, <<" ", "t", "o", " ">> >>

Articles == { <<"a", " ">>, <<"a", "n", " ">>, <<"t", "h", "e", " ">> }

\* for sep in seps: if sep in text: text = text.split(sep, 1)[0].strip()
RECURSIVE cut_at_each(_, _)
cut_at_each(text, seps) ==
    IF Len(seps) = 0 THEN text
    ELSE cut_at_each(IF find(text, Head(seps)) > 0
                     THEN strip(split_head(text, Head(seps)))
                     ELSE text,
                     Tail(seps))

\* mutant: the word limit is not applied
_sanitize_target_object_no_limit(raw) ==
    IF raw = NoneText \/ Len(raw) = 0 THEN ObjectText
    ELSE LET t1 == cut_at_each(strip(raw), CutSeparators)
             t2 == cut_at_each(t1, ClauseSeparators)
             t3 == strip(remove_chars(t2, { "\"", "'" }))
             t4 == IF \E a \in Articles : startswith(lower(t3), a)
                   THEN strip(split_tail(t3, <<" ">>))
                   ELSE t3
             t5 == rstrip(t4, { " ", ".", ",", "-" })
         IN  IF Len(t5) = 0 THEN ObjectText ELSE t5

_sanitize_target_object(raw) ==
    IF raw = NoneText \/ Len(raw) = 0 THEN ObjectText
    ELSE LET t1 == cut_at_each(strip(raw), CutSeparators)
             t2 == cut_at_each(t1, ClauseSeparators)
             t3 == strip(remove_chars(t2, { "\"", "'" }))
             t4 == IF \E a \in Articles : startswith(lower(t3), a)
                   THEN strip(split_tail(t3, <<" ">>))
                   ELSE t3
             t5 == rstrip(t4, { " ", ".", ",", "-" })
             words == split_words(t5)
             t6 == IF Len(words) > 4 THEN join_words(SubSeq(words, 1, 4)) ELSE t5
         IN  IF Len(t6) = 0 THEN ObjectText ELSE t6

TruthyText(v) == v # NoneText /\ Len(v) > 0

\* ------------------------------------------------------------- _match_size
\* no _match_size call yet; sizes are (width, height)
NoImage == [input |-> <<0, 0>>, size |-> <<0, 0>>, resized |-> <<0, 0>>, box |-> <<0, 0, 0, 0>>,
            saves |-> 0]

\* int(round(p / q)) for positive p, q. The quotient is computed in floating
\* point: away from a half-way value the nearest integer results; at a
\* half-way value the float lands on either side (or round() takes the even
\* neighbour), which `tie` selects.
round_div(p, q, tie) ==
    LET f == p \div q
        r == p % q
    IN  IF 2 * r < q THEN f
        ELSE IF 2 * r > q THEN f + 1
        ELSE IF tie = "down" THEN f ELSE f + 1

\* Image.crop(box).size
crop_size(box) == << box[3] - box[1], box[4] - box[2] >>

\* mutant: the scale fits the image inside the reference (letterbox)
_match_size_fit(img, ties) ==
    IF img.input = img.size THEN img
    ELSE LET in_w == img.input[1]
             in_h == img.input[2]
             out_w == img.size[1]
             out_h == img.size[2]
             scale == IF in_w * out_h <= in_h * out_w
                      THEN << in_w, out_w >> ELSE << in_h, out_h >>
             new_w == Max(1, round_div(out_w * scale[1], scale[2], ties[1]))
             new_h == Max(1, round_div(out_h * scale[1], scale[2], ties[2]))
             left == Max(0, (new_w - in_w) \div 2)
             top == Max(0, (new_h - in_h) \div 2)
             box == << left, top, left + in_w, top + in_h >>
         IN  [ input |-> img.input, size |-> crop_size(box), resized |-> << new_w, new_h >>,
               box |-> box, saves |-> img.saves + 1 ]

\* mutant: no early return when the sizes already agree
_match_size_always_saves(img, ties) ==
    LET in_w == img.input[1]
        in_h == img.input[2]
        out_w == img.size[1]
        out_h == img.size[2]
        scale == IF in_w * out_h >= in_h * out_w
                 THEN << in_w, out_w >> ELSE << in_h, out_h >>
        new_w == Max(1, round_div(out_w * scale[1], scale[2], ties[1]))
        new_h == Max(1, round_div(out_h * scale[1], scale[2], ties[2]))
        left == Max(0, (new_w - in_w) \div 2)
        top == Max(0, (new_h - in_h) \div 2)
        box == << left, top, left + in_w, top + in_h >>
    IN  [ input |-> img.input, size |-> crop_size(box), resized |-> << new_w, new_h >>,
          box |-> box, saves |-> img.saves + 1 ]

\* _match_size on the file img.size with the reference img.input:
\* scale = max(in_w / out_w, in_h / out_h) is the fraction scale[1] / scale[2];
\* the result records the resized size, the crop box and the save.
_match_size(img, ties) ==
    IF img.input = img.size THEN img
    ELSE LET in_w == img.input[1]
             in_h == img.input[2]
             out_w == img.size[1]
             out_h == img.size[2]
             scale == IF in_w * out_h >= in_h * out_w
                      THEN << in_w, out_w >> ELSE << in_h, out_h >>
             new_w == Max(1, round_div(out_w * scale[1], scale[2], ties[1]))
             new_h == Max(1, round_div(out_h * scale[1], scale[2], ties[2]))
             left == Max(0, (new_w - in_w) \div 2)
             top == Max(0, (new_h - in_h) \div 2)
             box == << left, top, left + in_w, top + in_h >>
         IN  [ input |-> img.input, size |-> crop_size(box), resized |-> << new_w, new_h >>,
               box |-> box, saves |-> img.saves + 1 ]

\* ------------------------------------------------ segmentation, inpainting
\* ReplicateClient.segment_object; outcome is what the backend calls do
\* ("ok", "err" for ReplicateError/ModelError, "exc" for any other exception).
segment_object(is_mock, outcome, clk) ==
    IF is_mock
    THEN [ret |-> "mock", path |-> timestamped_path("mask_mock", clk), called |-> FALSE]
    ELSE CASE outcome = "ok" ->
                [ret |-> "mask", path |-> timestamped_path("mask", clk), called |-> TRUE]
           [] outcome = "err" ->
                [ret |-> "mock", path |-> timestamped_path("mask_mock", clk), called |-> TRUE]
           [] OTHER -> [ret |-> "raise", path |-> None, called |-> TRUE]

\* ReplicateClient.inpaint, reported in the shape of an editor call record.
inpaint(is_mock, outcome, payload, clk) ==
    LET base == [model |-> "inpaint_model", max_retries |-> 1, sleeps |-> <<>>,
                 keys |-> <<>>, output_format |-> NoneText, suffix |-> "unused",
                 used_mock |-> FALSE, resize |-> "unused"]
        written == _write_output(_normalize_result(payload))
    IN  IF is_mock
        THEN base @@ [ret |-> "mock", path |-> timestamped_path("mock", clk), log |-> <<>>,
                      calls |-> 0, payload |-> Unused, files |-> 1]
        ELSE CASE outcome = "err" ->
                    base @@ [ret |-> "mock", path |-> timestamped_path("mock", clk),
                             log |-> <<"err">>, calls |-> 1, payload |-> Unused, files |-> 1]
               [] outcome \in { "exc", "io" } ->
                    base @@ [ret |-> "raise", path |-> None, log |-> <<outcome>>,
                             calls |-> IF outcome = "io" THEN 0 ELSE 1,
                             payload |-> Unused, files |-> 0]
               [] written = "true" ->
                    base @@ [ret |-> "edited", path |-> timestamped_path("inpaint", clk),
                             log |-> <<"ok">>, calls |-> 1, payload |-> payload, files |-> 1]
               [] written = "false" ->
                    base @@ [ret |-> "mock", path |-> timestamped_path("mock", clk),
                             log |-> <<"ok">>, calls |-> 1, payload |-> payload, files |-> 2]
               [] OTHER ->
                    base @@ [ret |-> "raise", path |-> None, log |-> <<"ok">>, calls |-> 1,
                             payload |-> payload, files |-> 1]

\* ------------------------------------------------------------ graph nodes
\* A node's result: raised (the node raised), delta (the dict it returned).
Raised == [raised |-> TRUE, delta |-> <<>>]
Returned(delta) == [raised |-> FALSE, delta |-> delta]

\* mutant: the attempt is counted on plan as well
plan_edit_node_counts(st, result) ==
    IF result.raises THEN Raised
    ELSE Returned([ edit_plan |-> result.edit_plan,
                    target_object |-> _sanitize_target_object(result.target_object),
                    attempts |-> GetAttempts(st) + 1 ])

\* plan_edit_node; result is what planner.propose_edit did.
plan_edit_node(st, result) ==
    IF result.raises THEN Raised
    ELSE Returned([ edit_plan |-> result.edit_plan,
                    target_object |-> _sanitize_target_object(result.target_object) ])

\* mutant: the edited image replaces the source image
baseline_node_moves_image(st, r) ==
    IF r.ret = "raise" THEN Raised
    ELSE IF ~TruthyStr(r.path) THEN Raised
    ELSE Returned([ edited_image_path |-> r.path, used_mock |-> r.used_mock,
                    image_path |-> r.path ])

\* mutant: a failed edit is replaced by the input image
baseline_node_swallows(st, r) ==
    IF r.ret = "raise"
    THEN Returned([ edited_image_path |-> GetStr(st, "image_path"), used_mock |-> TRUE ])
    ELSE IF ~TruthyStr(r.path) THEN Raised
    ELSE Returned([ edited_image_path |-> r.path, used_mock |-> r.used_mock ])

\* baseline_node of build_baseline_workflow; r is the image_edit_baseline record.
baseline_node(st, r) ==
    IF r.ret = "raise" THEN Raised
    ELSE IF ~TruthyStr(r.path) THEN Raised
    ELSE Returned([ edited_image_path |-> r.path, used_mock |-> r.used_mock ])

\* segment_object_node; r is the segment_object record.
segment_object_node(st, r) ==
    IF r.ret = "raise" THEN Raised ELSE Returned([ mask_path |-> r.path ])

\* mutant: the generator does not check for a mask
inpaint_node_no_mask_check(st, r) ==
    IF r.ret = "raise" THEN Raised
    ELSE Returned([ edited_image_path |-> r.path ])

\* inpaint_node; r is the inpaint record (read only when a mask is present).
inpaint_node(st, r) ==
    IF ~TruthyStr(GetStr(st, "mask_path")) THEN Raised
    ELSE IF r.ret = "raise" THEN Raised
    ELSE Returned([ edited_image_path |-> r.path ])

\* mutant: the used_mock flag is not consulted
critique_generated_node_ignores_mock(st, backend) ==
    IF    ~TruthyStr(GetStr(st, "image_path"))
       \/ ~TruthyStr(GetStr(st, "edited_image_path"))
       \/ ~TruthyStr(GetStr(st, "edit_plan"))
       \/ ~TruthyText(IF "target_object" \in DOMAIN st THEN st["target_object"] ELSE NoneText)
    THEN Raised @@ [called |-> FALSE]
    ELSE IF backend.raises THEN Raised @@ [called |-> TRUE]
    ELSE Returned([ is_realistic |-> backend.is_realistic,
                    is_minimal_edit |-> backend.is_minimal_edit,
                    critic_notes |-> backend.notes,
                    attempts |-> GetAttempts(st) + 1 ]) @@ [called |-> TRUE]

\* mutant: a failed critique does not count as an attempt
critique_generated_node_no_count(st, backend) ==
    IF    ~TruthyStr(GetStr(st, "image_path"))
       \/ ~TruthyStr(GetStr(st, "edited_image_path"))
       \/ ~TruthyStr(GetStr(st, "edit_plan"))
       \/ ~TruthyText(IF "target_object" \in DOMAIN st THEN st["target_object"] ELSE NoneText)
    THEN Raised @@ [called |-> FALSE]
    ELSE IF GetFlag(st, "used_mock")
    THEN Returned([ is_realistic |-> FALSE, is_minimal_edit |-> FALSE,
                    critic_notes |-> "mock_output=true; skipping critique.",
                    attempts |-> GetAttempts(st) + 1 ]) @@ [called |-> FALSE]
    ELSE IF backend.raises THEN Raised @@ [called |-> TRUE]
    ELSE Returned([ is_realistic |-> backend.is_realistic,
                    is_minimal_edit |-> backend.is_minimal_edit,
                    critic_notes |-> backend.notes,
                    attempts |-> IF backend.is_realistic THEN GetAttempts(st) + 1
                                 ELSE GetAttempts(st) ]) @@ [called |-> TRUE]

\* critique_generated_node; backend is what planner.critique_generated does when
\* called. called: whether the critic backend was invoked.
critique_generated_node(st, backend) ==
    IF    ~TruthyStr(GetStr(st, "image_path"))
       \/ ~TruthyStr(GetStr(st, "edited_image_path"))
       \/ ~TruthyStr(GetStr(st, "edit_plan"))
       \/ ~TruthyText(IF "target_object" \in DOMAIN st THEN st["target_object"] ELSE NoneText)
    THEN Raised @@ [called |-> FALSE]
    ELSE IF GetFlag(st, "used_mock")
    THEN Returned([ is_realistic |-> FALSE, is_minimal_edit |-> FALSE,
                    critic_notes |-> "mock_output=true; skipping critique.",
                    attempts |-> GetAttempts(st) + 1 ]) @@ [called |-> FALSE]
    ELSE IF backend.raises THEN Raised @@ [called |-> TRUE]
    ELSE Returned([ is_realistic |-> backend.is_realistic,
                    is_minimal_edit |-> backend.is_minimal_edit,
                    critic_notes |-> backend.notes,
                    attempts |-> GetAttempts(st) + 1 ]) @@ [called |-> TRUE]

\* mutant: the bound is tested with > instead of >=
critic_router_late(st, limit) ==
    IF GetFlag(st, "is_realistic") /\ GetFlag(st, "is_minimal_edit") THEN "END"
    ELSE IF GetAttempts(st) > limit THEN "END"
    ELSE "planner"

\* critic_router (the same function in both workflows)
critic_router(st, limit) ==
    IF GetFlag(st, "is_realistic") /\ GetFlag(st, "is_minimal_edit") THEN "END"
    ELSE IF GetAttempts(st) >= limit THEN "END"
    ELSE "planner"

\* mutant: the full graph wires the planner straight to the generator
edge_skips_segmenter(v, n) ==
    IF v = "baseline"
    THEN CASE n = "planner" -> "baseline"
           [] n = "baseline" -> "critic"
    ELSE CASE n = "planner" -> "generator"
           [] n = "segmenter" -> "generator"
           [] n = "generator" -> "critic"

\* the unconditional edges of the two graphs
edge(v, n) ==
    IF v = "baseline"
    THEN CASE n = "planner" -> "baseline"
           [] n = "baseline" -> "critic"
    ELSE CASE n = "planner" -> "segmenter"
           [] n = "segmenter" -> "generator"
           [] n = "generator" -> "critic"

\* ------------------------------------------------- inputs from the backends
\* The planner's k-th proposal is one of: a plan naming k, the empty plan.
PlanTexts(k) == { "plan_" \o ToString(k), "" }

RawTargets == { NoneText, <<"T", "h", "e", " ", "l", "a", "m", "p", " ", "(", "o", "l", "d", ")">> }

\* what planner.propose_edit does on its k-th call: raise, or return a PlanResult
PlannerResults(k) ==
    { [raises |-> TRUE, edit_plan |-> None, target_object |-> NoneText] }
        \cup { [raises |-> FALSE, edit_plan |-> p, target_object |-> t] :
                 p \in PlanTexts(k), t \in RawTargets }

\* what planner.critique_generated does in iteration k: raise, or return a
\* GeneratedCritiqueResult
CriticBackends(k) ==
    { [raises |-> TRUE, is_realistic |-> FALSE, is_minimal_edit |-> FALSE, notes |-> ""] }
        \cup { [raises |-> FALSE, is_realistic |-> r, is_minimal_edit |-> m,
                notes |-> "notes_" \o ToString(k)] : r \in BOOLEAN, m \in BOOLEAN }

\* the models the workflow runs are configured with
WorkflowModels == { "black-forest-labs/flux-kontext-max", "unknown/model" }

\* An editor call's inputs: k leading transient errors, then outcome t; the
\* payload of a returning client.run; whether _match_size succeeds.
PayloadsFor(t) == IF t = "ok" THEN Payloads ELSE { Unused }
ResizesFor(t, payload) ==
    IF t = "ok" /\ _write_output(_normalize_result(payload)) = "true"
    THEN { "ok", "fail" } ELSE { "unused" }

\* the output_format of the client's flux_kontext_params, where the payload
\* builder reads it
FormatsFor(model, t, payload, resize) ==
    IF model = "black-forest-labs/flux-kontext-max" /\ t = "ok"
       /\ payload = Scalar("url") /\ resize = "ok"
    THEN FluxFormats ELSE { NoneText }

EditInputs(model, retries) ==
    UNION { UNION { UNION { { [k |-> k, t |-> t, payload |-> p, resize |-> z,
                               flux_format |-> f] : f \in FormatsFor(model, t, p, z) } :
                        z \in ResizesFor(t, p) } : p \in PayloadsFor(t) } :
            k \in 0..retries, t \in Outcomes }

\* The editor inputs the workflow runs are driven with: one for each way an
\* editing stage can end.
WorkflowEditInputs ==
    { [k |-> 0, t |-> "ok", payload |-> Scalar("url"), resize |-> "ok"],
      [k |-> 1, t |-> "ok", payload |-> ListOf(<<"file">>), resize |-> "fail"],
      [k |-> 0, t |-> "ok", payload |-> ListOf(<<>>), resize |-> "unused"],
      [k |-> DefaultMaxRetries, t |-> "err", payload |-> Unused, resize |-> "unused"],
      [k |-> 0, t |-> "ok", payload |-> Scalar("badstr"), resize |-> "unused"],
      [k |-> 1, t |-> "exc", payload |-> Unused, resize |-> "unused"],
      [k |-> 0, t |-> "io", payload |-> Unused, resize |-> "unused"] }

NoCritique == [raised |-> FALSE, delta |-> <<>>, called |-> FALSE, saw_used_mock |-> FALSE]

NoPlannerIn == [prior_plan |-> None, critic_notes |-> None]

\* no driver loop: a single workflow run or a single call
NoBatch == [driver |-> None, images |-> 0, next |-> 1, runs |-> <<>>, rows |-> <<>>,
            report |-> <<>>, written |-> FALSE, aborted |-> FALSE, done |-> FALSE]

NoPlan == [raises |-> FALSE, edit_plan |-> None, target_object |-> NoneText]

NoHist ==
    [ planner_calls |-> 0,      \* planner.propose_edit calls
      iterations |-> 0,         \* critic node executions that returned
      critic_calls |-> 0,       \* planner.critique_generated calls
      first_success |-> 0,      \* first iteration whose critique returned both flags true
      edit_mock |-> FALSE,      \* the most recent editing stage that returned produced a
                                \* mock fallback
      critiqued_mock |-> FALSE, \* the critic backend was called on a mock fallback
      mask |-> "none",          \* what the most recent segmentation produced
      had_mock |-> FALSE ]      \* an image_edit_baseline call before the latest one on
                                \* the same client ended in a mock fallback

\* ------------------------------------------------------------- workflow run
Init ==
    /\ variant \in { "baseline", "full" }
    /\ max_attempts \in (0 - 1)..MaxAttemptsArg
    /\ mock \in BOOLEAN
    /\ baseline_model \in IF variant = "baseline" THEN WorkflowModels
                         ELSE { "black-forest-labs/flux-kontext-max" }
    /\ max_retries = DefaultMaxRetries
    /\ node = "planner"
    /\ state = InitialState("img.png", "safety")
    /\ last_baseline_used_mock = FALSE
    /\ clock = 0
    /\ edit = NoEdit
    /\ planner_in = NoPlannerIn
    /\ critique = NoCritique
    /\ plan = NoPlan
    /\ output_img = NoImage
    /\ batch = NoBatch
    /\ hist = NoHist

\* the graph runs a node, folds what it returned into the state and follows the
\* edge; an exception leaves the run (app.invoke raises)
Follow(res, nxt) ==
    IF res.raised
    THEN node' = "error" /\ state' = state
    ELSE node' = nxt /\ state' = Merge(state, res.delta)

PlannerStep ==
    /\ node = "planner"
    /\ hist.planner_calls <= MaxAttemptsArg
    /\ \E result \in PlannerResults(hist.planner_calls + 1) :
          /\ plan' = result
          /\ planner_in' = [ prior_plan |-> GetStr(state, "edit_plan"),
                             critic_notes |-> GetStr(state, "critic_notes") ]
          /\ Follow(plan_edit_node(state, result), edge(variant, "planner"))
    /\ hist' = [hist EXCEPT !.planner_calls = @ + 1]
    /\ UNCHANGED << variant, max_attempts, mock, baseline_model, max_retries,
                    last_baseline_used_mock, clock, edit, critique,
                    output_img, batch >>

BaselineStep ==
    /\ variant = "baseline" /\ node = "baseline"
    /\ \E in \in WorkflowEditInputs :
          LET r == image_edit_baseline(baseline_model, NoneText, max_retries,
                                       OutcomeSeq(in.k, in.t), in.payload, in.resize, clock)
          IN  /\ edit' = r
              /\ last_baseline_used_mock' = r.used_mock
              /\ clock' = clock + 1
              /\ hist' = [hist EXCEPT !.edit_mock = (r.ret = "mock")]
              /\ Follow(baseline_node(state, r), edge(variant, "baseline"))
    /\ UNCHANGED << variant, max_attempts, mock, baseline_model, max_retries,
                    planner_in, critique, plan,
                    output_img, batch >>

SegmenterStep ==
    /\ variant = "full" /\ node = "segmenter"
    /\ \E outcome \in { "ok", "err", "exc" } :
          LET r == segment_object(mock, outcome, clock)
          IN  /\ clock' = clock + 1
              /\ hist' = [hist EXCEPT !.mask = r.ret]
              /\ Follow(segment_object_node(state, r), edge(variant, "segmenter"))
    /\ UNCHANGED << variant, max_attempts, mock, baseline_model, max_retries,
                    last_baseline_used_mock, edit, planner_in, critique, plan,
                    output_img, batch >>

GeneratorStep ==
    /\ variant = "full" /\ node = "generator"
    /\ \E in \in WorkflowEditInputs :
          LET r == inpaint(mock, OutcomeSeq(in.k, in.t)[1], in.payload, clock)
          IN  /\ edit' = r
              /\ clock' = clock + 1
              /\ hist' = [hist EXCEPT !.edit_mock = (r.ret = "mock")]
              /\ Follow(inpaint_node(state, r), edge(variant, "generator"))
    /\ UNCHANGED << variant, max_attempts, mock, baseline_model, max_retries,
                    last_baseline_used_mock, planner_in, critique, plan,
                    output_img, batch >>

BothTrue(delta) ==
    /\ "is_realistic" \in DOMAIN delta /\ delta["is_realistic"]
    /\ "is_minimal_edit" \in DOMAIN delta /\ delta["is_minimal_edit"]

CriticStep ==
    /\ node = "critic"
    /\ \E backend \in CriticBackends(hist.iterations + 1) :
          LET res == critique_generated_node(state, backend)
          IN  /\ critique' = [raised |-> res.raised, delta |-> res.delta,
                              called |-> res.called,
                              saw_used_mock |-> GetFlag(state, "used_mock")]
              /\ Follow(res, critic_router(Merge(state, res.delta), max_attempts))
              /\ hist' = [hist EXCEPT
                    !.iterations = IF res.raised THEN @ ELSE @ + 1,
                    !.critic_calls = IF res.called THEN @ + 1 ELSE @,
                    !.first_success =
                        IF @ = 0 /\ ~res.raised /\ BothTrue(res.delta)
                        THEN hist.iterations + 1 ELSE @,
                    !.critiqued_mock = @ \/ (res.called /\ hist.edit_mock)]
    /\ UNCHANGED << variant, max_attempts, mock, baseline_model, max_retries,
                    last_baseline_used_mock, clock, edit, planner_in, plan,
                    output_img, batch >>

Next == PlannerStep \/ BaselineStep \/ SegmenterStep \/ GeneratorStep \/ CriticStep

Spec == Init /\ [][Next]_vars

\* Every node call returns or raises, and the graph then runs the next node.
FairSpec == Spec /\ WF_vars(Next)


\* ------------------------------------------- the critic node, called alone
\* The dicts critique_generated_node is called with: each field present with a
\* value, None or the empty str; used_mock and attempts present or absent.
CriticCoreInputs ==
    [ image_path : { None, "img.png" },
      edited_image_path : { None, "", "edited.png" },
      edit_plan : { None, "", "plan_1" },
      target_object : { NoneText, <<>>, <<"l", "a", "m", "p">> } ]

CriticInputs ==
    CriticCoreInputs
        \cup { d @@ [attempts |-> a] : d \in CriticCoreInputs, a \in 0..MaxAttemptsArg }
        \cup { d @@ [used_mock |-> u] : d \in CriticCoreInputs, u \in BOOLEAN }
        \cup { d @@ [attempts |-> a, used_mock |-> u] :
                 d \in CriticCoreInputs, a \in 0..MaxAttemptsArg, u \in BOOLEAN }

InitCritic ==
    /\ variant = "critic"
    /\ max_attempts = 0
    /\ mock = FALSE
    /\ baseline_model = "black-forest-labs/flux-kontext-max"
    /\ max_retries = DefaultMaxRetries
    /\ node = "call"
    /\ state \in CriticInputs
    /\ last_baseline_used_mock = FALSE
    /\ clock = 0
    /\ edit = NoEdit
    /\ planner_in = NoPlannerIn
    /\ critique = NoCritique
    /\ plan = NoPlan
    /\ output_img = NoImage
    /\ batch = NoBatch
    /\ hist = NoHist

CriticCall ==
    /\ variant = "critic" /\ node = "call"
    /\ \E backend \in CriticBackends(1) :
          LET res == critique_generated_node(state, backend)
          IN  /\ critique' = [raised |-> res.raised, delta |-> res.delta,
                              called |-> res.called,
                              saw_used_mock |-> GetFlag(state, "used_mock")]
              /\ node' = IF res.raised THEN "raised" ELSE "returned"
    /\ UNCHANGED << variant, max_attempts, mock, baseline_model, max_retries, state,
                    last_baseline_used_mock, clock, edit, planner_in, hist, plan,
                    output_img, batch >>

SpecCritic == InitCritic /\ [][CriticCall]_vars

\* ---------------------------------------- the generator node, called alone
\* The states inpaint_node is called with: mask_path a path, None or empty.
GeneratorInputs ==
    { [InitialState("img.png", "safety") EXCEPT !["mask_path"] = m, !["edit_plan"] = p] :
        m \in { None, "", "mask_0" }, p \in { None, "plan_1" } }

InitGenerator ==
    /\ variant = "generator"
    /\ max_attempts = 0
    /\ mock \in BOOLEAN
    /\ baseline_model = "black-forest-labs/flux-kontext-max"
    /\ max_retries = DefaultMaxRetries
    /\ node = "call"
    /\ state \in GeneratorInputs
    /\ last_baseline_used_mock = FALSE
    /\ clock = 0
    /\ edit = NoEdit
    /\ planner_in = NoPlannerIn
    /\ critique = NoCritique
    /\ plan = NoPlan
    /\ output_img = NoImage
    /\ batch = NoBatch
    /\ hist = NoHist

\* one call of inpaint_node; replicate_client.inpaint is reached only past the
\* mask check
GeneratorCall ==
    /\ variant = "generator" /\ node = "call"
    /\ \E in \in WorkflowEditInputs :
          LET r == inpaint(mock, OutcomeSeq(in.k, in.t)[1], in.payload, clock)
              res == inpaint_node(state, r)
          IN  /\ edit' = IF TruthyStr(GetStr(state, "mask_path")) THEN r ELSE NoEdit
              /\ node' = IF res.raised THEN "raised" ELSE "returned"
              /\ state' = IF res.raised THEN state ELSE Merge(state, res.delta)
    /\ clock' = clock + 1
    /\ UNCHANGED << variant, max_attempts, mock, baseline_model, max_retries,
                    last_baseline_used_mock, planner_in, critique, hist, plan,
                    output_img, batch >>

\* a stage called on its own: the critic node or the generator node
InitStage == InitCritic \/ InitGenerator

SpecStage == InitStage /\ [][CriticCall \/ GeneratorCall]_vars

\* ------------------------------------------- the planner node, called alone
\* The raw target_object texts the planner backend returns: None, or a lead, up
\* to MaxRawWords words separated by single spaces, and a trail.
RawLead == { <<>>, <<" ">>, <<"t", "h", "e", " ">>, <<"A", "n", " ">>, <<"'">> }

RawWords == { <<"l", "a", "m", "p">>, <<"t", "h", "e">>, <<"x", ")">> }

RawTrail == { <<>>, <<".">>, <<" ">>, <<" ", "(", "o", "l", "d", ")">>, <<":", " ", "x">> }

RawTexts ==
    { NoneText } \cup
    { lead \o join_words(ws) \o trail :
        lead \in RawLead, trail \in RawTrail,
        ws \in UNION { [1..k -> RawWords] : k \in 0..MaxRawWords } }

InitPlan ==
    /\ variant = "planner"
    /\ max_attempts = 0
    /\ mock = FALSE
    /\ baseline_model = "black-forest-labs/flux-kontext-max"
    /\ max_retries = DefaultMaxRetries
    /\ node = "call"
    /\ state = InitialState("img.png", "safety")
    /\ last_baseline_used_mock = FALSE
    /\ clock = 0
    /\ edit = NoEdit
    /\ planner_in = NoPlannerIn
    /\ critique = NoCritique
    /\ plan = NoPlan
    /\ output_img = NoImage
    /\ batch = NoBatch
    /\ hist = NoHist

\* one call of plan_edit_node, the graph storing what it returns
PlanCall ==
    /\ variant = "planner" /\ node = "call"
    /\ \E raw \in RawTexts :
          LET result == [raises |-> FALSE, edit_plan |-> "plan_1", target_object |-> raw]
          IN  /\ plan' = result
              /\ planner_in' = [ prior_plan |-> GetStr(state, "edit_plan"),
                                 critic_notes |-> GetStr(state, "critic_notes") ]
              /\ state' = Merge(state, plan_edit_node(state, result).delta)
    /\ node' = "returned"
    /\ hist' = [hist EXCEPT !.planner_calls = @ + 1]
    /\ UNCHANGED << variant, max_attempts, mock, baseline_model, max_retries,
                    last_baseline_used_mock, clock, edit, critique,
                    output_img, batch >>

SpecPlan == InitPlan /\ [][PlanCall]_vars

\* ------------------------------------------------- _match_size, called alone
\* the reference image and the edited image, each of any size up to MaxDim
SizeInputs ==
    { [NoImage EXCEPT !.input = << W, H >>, !.size = << w, h >>] :
        W \in 1..MaxDim, H \in 1..MaxDim, w \in 1..MaxDim, h \in 1..MaxDim }

InitSize ==
    /\ variant = "resizer"
    /\ max_attempts = 0
    /\ mock = FALSE
    /\ baseline_model = "black-forest-labs/flux-kontext-max"
    /\ max_retries = DefaultMaxRetries
    /\ node = "call"
    /\ state = InitialState("img.png", "safety")
    /\ last_baseline_used_mock = FALSE
    /\ clock = 0
    /\ edit = NoEdit
    /\ planner_in = NoPlannerIn
    /\ critique = NoCritique
    /\ plan = NoPlan
    /\ output_img \in SizeInputs
    /\ batch = NoBatch
    /\ hist = NoHist

\* one call of _match_size(output_path, input_path), after any earlier ones
MatchSizeCall ==
    /\ variant = "resizer" /\ node = "call"
    /\ clock < MaxClock
    /\ \E tie_w \in { "down", "up" }, tie_h \in { "down", "up" } :
          output_img' = _match_size(output_img, << tie_w, tie_h >>)
    /\ clock' = clock + 1
    /\ UNCHANGED << variant, max_attempts, mock, baseline_model, max_retries, node, state,
                    last_baseline_used_mock, edit, planner_in, critique, plan, hist, batch >>

SpecSize == InitSize /\ [][MatchSizeCall]_vars

\* --------------------------------------------------- the drivers' batch loops
\* collect_images yields the input images in sorted order
ImagePath(i) == "img_" \o ToString(i)

\* result_row of generate_counterfactual.py: `state.get(k, "") or ""` per text
\* field, bool(state.get(k, False)) per flag
result_row(image_path, st) ==
    [ input_image_path |-> image_path,
      output_image_path |->
          IF TruthyStr(GetStr(st, "edited_image_path")) THEN st["edited_image_path"] ELSE "",
      planner_edit_plan |-> IF TruthyStr(GetStr(st, "edit_plan")) THEN st["edit_plan"] ELSE "",
      planner_target_object |->
          IF "target_object" \in DOMAIN st /\ TruthyText(st["target_object"])
          THEN st["target_object"] ELSE <<>>,
      critic_is_realistic |-> GetFlag(st, "is_realistic"),
      critic_is_minimal_edit |-> GetFlag(st, "is_minimal_edit"),
      critic_notes |-> IF TruthyStr(GetStr(st, "critic_notes")) THEN st["critic_notes"] ELSE "" ]

\* the row main() builds in its except branch
error_row(image_path, err) ==
    [ input_image_path |-> image_path, output_image_path |-> "", planner_edit_plan |-> "",
      planner_target_object |-> <<>>, critic_is_realistic |-> FALSE,
      critic_is_minimal_edit |-> FALSE, critic_notes |-> "ERROR: " \o err ]

\* What the workflow run for the i-th image does: raise, or end in a final state
\* after one iteration whose critique passed or failed.
RunResults(i) ==
    { [raised |-> TRUE, err |-> "boom_" \o ToString(i),
       state |-> InitialState(ImagePath(i), "safety")] }
        \cup { [raised |-> FALSE, err |-> "",
                state |-> Merge(InitialState(ImagePath(i), "safety"),
                                [ edit_plan |-> "plan_1",
                                  target_object |-> <<"l", "a", "m", "p">>,
                                  edited_image_path |-> timestamped_path("image_edit_baseline", i),
                                  attempts |-> 1, is_realistic |-> r,
                                  critic_notes |-> "notes_1" ])] : r \in BOOLEAN }

InitBatch ==
    /\ variant = "batch"
    /\ max_attempts = 1
    /\ mock = FALSE
    /\ baseline_model = "black-forest-labs/flux-kontext-max"
    /\ max_retries = DefaultMaxRetries
    /\ node = "loop"
    /\ state = InitialState("img.png", "safety")
    /\ last_baseline_used_mock = FALSE
    /\ clock = 0
    /\ edit = NoEdit
    /\ planner_in = NoPlannerIn
    /\ critique = NoCritique
    /\ plan = NoPlan
    /\ output_img = NoImage
    /\ \E d \in { "generate_counterfactual", "run_pipeline" }, n \in 0..MaxImages :
          batch = [NoBatch EXCEPT !.driver = d, !.images = n]
    /\ hist = NoHist

BatchFrame ==
    UNCHANGED << variant, max_attempts, mock, baseline_model, max_retries, node, state,
                 last_baseline_used_mock, clock, edit, planner_in, critique, plan,
                 output_img, hist >>

\* `if not images: ... return` in both drivers
NoImagesReturn ==
    /\ variant = "batch" /\ ~batch.done /\ batch.images = 0
    /\ batch' = [batch EXCEPT !.done = TRUE]
    /\ BatchFrame

\* one pass of the loop of generate_counterfactual.main: try the run, build the
\* row (the error row in the except branch), append it
GenerateIteration ==
    /\ variant = "batch" /\ ~batch.done /\ batch.driver = "generate_counterfactual"
    /\ batch.images > 0 /\ batch.next <= batch.images
    /\ \E res \in RunResults(batch.next) :
          LET row == IF res.raised THEN error_row(ImagePath(batch.next), res.err)
                     ELSE result_row(ImagePath(batch.next), res.state)
          IN  batch' = [batch EXCEPT !.runs = Append(@, res), !.rows = Append(@, row),
                                     !.next = @ + 1]
    /\ BatchFrame

\* write_csv(results, csv_path) after the loop of generate_counterfactual.main
WriteCsv ==
    /\ variant = "batch" /\ ~batch.done /\ batch.driver = "generate_counterfactual"
    /\ batch.images > 0 /\ batch.next > batch.images
    /\ batch' = [batch EXCEPT !.report = batch.rows, !.written = TRUE, !.done = TRUE]
    /\ BatchFrame

\* one pass of the loop of run_pipeline.run: app.stream is consumed with no try
\* around it, so an exception leaves run(); nothing is recorded per image
PipelineIteration ==
    /\ variant = "batch" /\ ~batch.done /\ batch.driver = "run_pipeline"
    /\ batch.images > 0 /\ batch.next <= batch.images
    /\ \E res \in RunResults(batch.next) :
          batch' = IF res.raised
                   THEN [batch EXCEPT !.runs = Append(@, res), !.aborted = TRUE, !.done = TRUE]
                   ELSE [batch EXCEPT !.runs = Append(@, res), !.next = @ + 1]
    /\ BatchFrame

\* run_pipeline.run returns after its loop
PipelineReturn ==
    /\ variant = "batch" /\ ~batch.done /\ batch.driver = "run_pipeline"
    /\ batch.images > 0 /\ batch.next > batch.images
    /\ batch' = [batch EXCEPT !.done = TRUE]
    /\ BatchFrame

NextBatch ==
    NoImagesReturn \/ GenerateIteration \/ WriteCsv \/ PipelineIteration \/ PipelineReturn

SpecBatch == InitBatch /\ [][NextBatch]_vars

\* ------------------------------------- OpenAIPlanner: parsing the responses
\* A chat completion's message content, by what json.loads makes of it:
\*   "none"    None or the empty str (data = {});
\*   "garbage" text that is no JSON (json.loads raises JSONDecodeError);
\*   "array"   JSON that is no object (data.get raises AttributeError);
\*   "object"  a JSON object, `fields` its members.
\* A str member is kept as in AgentState, JSON null is None; a flag member is
\* "true", "false", "null" or "str" (a non-empty JSON string).
EmptyDict == [k \in {} |-> None]

Content(kind, fields) == [kind |-> kind, fields |-> fields]

PlannerContents ==
    { Content(k, EmptyDict) : k \in { "none", "garbage", "array" } }
        \cup { Content("object", ep @@ to) :
                 ep \in { EmptyDict, [edit_plan |-> "plan_1"], [edit_plan |-> ""],
                          [edit_plan |-> None] },
                 to \in { EmptyDict, [target_object |-> <<"l", "a", "m", "p">>],
                          [target_object |-> NoneText] } }

CriticContents ==
    { Content(k, EmptyDict) : k \in { "none", "garbage", "array" } }
        \cup { Content("object", r @@ m @@ n) :
                 r \in { EmptyDict } \cup { [is_realistic |-> v] : v \in { "true", "false", "null", "str" } },
                 m \in { EmptyDict } \cup { [is_minimal_edit |-> v] : v \in { "true", "false" } },
                 n \in { EmptyDict, [notes |-> "notes_1"] } }

\* bool(v) on a parsed JSON value
JsonBool(v) == v \in { "true", "str" }

\* OpenAIPlanner.propose_edit from the completion's content on
propose_edit(content) ==
    IF content.kind \in { "garbage", "array" }
    THEN [raises |-> TRUE, edit_plan |-> None, target_object |-> NoneText]
    ELSE [ raises |-> FALSE,
           edit_plan |-> IF "edit_plan" \in DOMAIN content.fields
                         THEN content.fields["edit_plan"] ELSE "No plan generated",
           target_object |-> IF "target_object" \in DOMAIN content.fields
                             THEN content.fields["target_object"] ELSE ObjectText ]

\* OpenAIPlanner.critique_generated from the completion's content on
critique_generated(content) ==
    IF content.kind \in { "garbage", "array" }
    THEN [raises |-> TRUE, is_realistic |-> FALSE, is_minimal_edit |-> FALSE, notes |-> ""]
    ELSE [ raises |-> FALSE,
           is_realistic |-> "is_realistic" \in DOMAIN content.fields
                               /\ JsonBool(content.fields["is_realistic"]),
           is_minimal_edit |-> "is_minimal_edit" \in DOMAIN content.fields
                                  /\ JsonBool(content.fields["is_minimal_edit"]),
           notes |-> IF "notes" \in DOMAIN content.fields
                     THEN content.fields["notes"] ELSE "" ]

\* One iteration of the baseline workflow with max_attempts = 1, driven by the
\* backends' response contents; the editing stage returns an edited image.
InitRespond ==
    /\ variant = "responses"
    /\ max_attempts = 1
    /\ mock = FALSE
    /\ baseline_model = "black-forest-labs/flux-kontext-max"
    /\ max_retries = DefaultMaxRetries
    /\ node = "planner"
    /\ state = InitialState("img.png", "safety")
    /\ last_baseline_used_mock = FALSE
    /\ clock = 0
    /\ edit = NoEdit
    /\ planner_in = NoPlannerIn
    /\ critique = NoCritique
    /\ plan = NoPlan
    /\ output_img = NoImage
    /\ batch = NoBatch
    /\ hist = NoHist

RespondPlan ==
    /\ variant = "responses" /\ node = "planner"
    /\ \E content \in PlannerContents :
          LET result == propose_edit(content)
          IN  /\ plan' = result @@ [content |-> content]
              /\ planner_in' = [ prior_plan |-> GetStr(state, "edit_plan"),
                                 critic_notes |-> GetStr(state, "critic_notes") ]
              /\ Follow(plan_edit_node(state, result), edge("baseline", "planner"))
    /\ hist' = [hist EXCEPT !.planner_calls = @ + 1]
    /\ UNCHANGED << variant, max_attempts, mock, baseline_model, max_retries,
                    last_baseline_used_mock, clock, edit, critique, output_img, batch >>

RespondEdit ==
    /\ variant = "responses" /\ node = "baseline"
    /\ LET r == image_edit_baseline(baseline_model, NoneText, max_retries,
                                    OutcomeSeq(0, "ok"), Scalar("url"), "ok", clock)
       IN  /\ edit' = r
           /\ last_baseline_used_mock' = r.used_mock
           /\ Follow(baseline_node(state, r), edge("baseline", "baseline"))
    /\ clock' = clock + 1
    /\ UNCHANGED << variant, max_attempts, mock, baseline_model, max_retries,
                    planner_in, critique, plan, output_img, batch, hist >>

RespondCritique ==
    /\ variant = "responses" /\ node = "critic"
    /\ \E content \in CriticContents :
          LET res == critique_generated_node(state, critique_generated(content))
          IN  /\ critique' = [raised |-> res.raised, delta |-> res.delta,
                              called |-> res.called,
                              saw_used_mock |-> GetFlag(state, "used_mock"),
                              content |-> content]
              /\ Follow(res, critic_router(Merge(state, res.delta), max_attempts))
              /\ hist' = [hist EXCEPT
                    !.iterations = IF res.raised THEN @ ELSE @ + 1,
                    !.critic_calls = IF res.called THEN @ + 1 ELSE @]
    /\ UNCHANGED << variant, max_attempts, mock, baseline_model, max_retries,
                    last_baseline_used_mock, clock, edit, planner_in, plan, output_img,
                    batch >>

SpecRespond == InitRespond /\ [][RespondPlan \/ RespondEdit \/ RespondCritique]_vars

\* ------------------------------------------ the runs of several images
\* One workflow run per input image. generate_counterfactual runs the baseline
\* workflow through run_baseline_for_image, which builds a new planner, client
\* and graph for each image; run_pipeline runs the full workflow on one graph and
\* one client built before its loop. The runs are stepped in any order, which
\* covers both one-after-another and interleaved execution.
IdleRun ==
    [ node |-> "idle", state |-> InitialState(None, None), client_flag |-> FALSE,
      edit_mock |-> FALSE, returned_mock |-> FALSE, planner_calls |-> 0, iterations |-> 0 ]

\* the text the backends return to run i in its k-th iteration
RunText(stem, i, k) == stem \o "_" \o ToString(i) \o "_" \o ToString(k)

\* the time of run i's k-th client call
RunClock(i, k) == 10 * i + k

\* mutant: a run takes over the state the previous image's run left
StartState_reuses(rs, i) ==
    IF i > 1 /\ rs[i - 1].node # "idle" THEN rs[i - 1].state
    ELSE InitialState(ImagePath(i), "safety")

\* the dict each driver builds for image i, as the graph stores it
StartState(rs, i) == InitialState(ImagePath(i), "safety")

RunFollow(run, res, nxt) ==
    IF res.raised THEN [run EXCEPT !.node = "error"]
    ELSE [run EXCEPT !.node = nxt, !.state = Merge(run.state, res.delta)]

\* the editor inputs of the runs: a genuine edit, or retries exhausted
RunEditInputs ==
    { [k |-> 0, t |-> "ok", payload |-> Scalar("url"), resize |-> "ok"],
      [k |-> DefaultMaxRetries, t |-> "err", payload |-> Unused, resize |-> "unused"] }

\* run i executes the node it is at; v is the workflow variant
RunNode(rs, i, v) ==
    LET run == rs[i]
        k == run.iterations + 1
    IN  CASE run.node = "idle" ->
               { [run EXCEPT !.node = "planner", !.state = StartState(rs, i)] }
          [] run.node = "planner" ->
               { [ RunFollow(run,
                       plan_edit_node(run.state,
                           [raises |-> FALSE, edit_plan |-> RunText("plan", i, k),
                            target_object |-> <<"l", "a", "m", "p">>]),
                       edge(v, "planner"))
                   EXCEPT !.planner_calls = @ + 1 ] }
          [] run.node = "baseline" ->
               { LET r == image_edit_baseline(baseline_model, NoneText, max_retries,
                                              OutcomeSeq(in.k, in.t), in.payload, in.resize,
                                              RunClock(i, k))
                     res == baseline_node(run.state, r)
                 IN  [ RunFollow(run, res, edge(v, "baseline"))
                       EXCEPT !.client_flag = r.used_mock, !.edit_mock = (r.ret = "mock"),
                              !.returned_mock = r.used_mock ] : in \in RunEditInputs }
          [] run.node = "segmenter" ->
               { RunFollow(run,
                     segment_object_node(run.state, segment_object(mock, "ok", RunClock(i, k))),
                     edge(v, "segmenter")) }
          [] run.node = "generator" ->
               { LET r == inpaint(mock, OutcomeSeq(in.k, in.t)[1], in.payload, RunClock(i, k))
                 IN  [ RunFollow(run, inpaint_node(run.state, r), edge(v, "generator"))
                       EXCEPT !.edit_mock = (r.ret = "mock") ] : in \in RunEditInputs }
          [] run.node = "critic" ->
               { LET res == critique_generated_node(run.state,
                                [raises |-> FALSE, is_realistic |-> ok,
                                 is_minimal_edit |-> FALSE, notes |-> RunText("notes", i, k)])
                 IN  [ RunFollow(run, res, critic_router(Merge(run.state, res.delta), max_attempts))
                       EXCEPT !.iterations = IF res.raised THEN @ ELSE @ + 1 ] :
                 ok \in BOOLEAN }
          [] OTHER -> { }

InitRuns ==
    /\ variant \in { "baseline", "full" }
    /\ max_attempts = 2
    /\ mock \in BOOLEAN
    /\ baseline_model = "black-forest-labs/flux-kontext-max"
    /\ max_retries = DefaultMaxRetries
    /\ node = "runs"
    /\ state = InitialState("img.png", "safety")
    /\ last_baseline_used_mock = FALSE
    /\ clock = 0
    /\ edit = NoEdit
    /\ planner_in = NoPlannerIn
    /\ critique = NoCritique
    /\ plan = NoPlan
    /\ output_img = NoImage
    /\ \E n \in 1..MaxRuns :
          batch = [NoBatch EXCEPT
                     !.driver = IF variant = "baseline" THEN "generate_counterfactual"
                                ELSE "run_pipeline",
                     !.images = n, !.runs = [i \in 1..n |-> IdleRun]]
    /\ hist = NoHist

\* some image's run takes its next step
RunStep ==
    /\ node = "runs"
    /\ \E i \in 1..batch.images :
          \E run \in RunNode(batch.runs, i, variant) :
              batch' = [batch EXCEPT !.runs[i] = run]
    /\ BatchFrame

SpecRuns == InitRuns /\ [][RunStep]_vars

\* ------------------------------------- image_edit_baseline, called directly
InitEdit ==
    /\ variant = "editor"
    /\ max_attempts = 0
    /\ mock = FALSE
    /\ baseline_model \in Models
    /\ max_retries \in 0..MaxRetriesArg
    /\ node = "call"
    /\ state = InitialState("img.png", "safety")
    /\ last_baseline_used_mock = FALSE
    /\ clock = 0
    /\ edit = NoEdit
    /\ planner_in = NoPlannerIn
    /\ critique = NoCritique
    /\ plan = NoPlan
    /\ output_img = NoImage
    /\ batch = NoBatch
    /\ hist = NoHist

\* one call of image_edit_baseline on the client, after any earlier ones
EditorCall ==
    /\ variant = "editor" /\ node = "call"
    /\ clock < MaxClock
    /\ \E in \in EditInputs(baseline_model, max_retries) :
          LET r == image_edit_baseline(baseline_model, in.flux_format, max_retries,
                                       OutcomeSeq(in.k, in.t), in.payload, in.resize, clock)
          IN  /\ edit' = r
              /\ last_baseline_used_mock' = r.used_mock
              /\ hist' = [hist EXCEPT
                    !.edit_mock = IF r.ret = "raise" THEN @ ELSE r.ret = "mock",
                    !.had_mock = @ \/ edit.ret = "mock"]
    /\ clock' = clock + 1
    /\ UNCHANGED << variant, max_attempts, mock, baseline_model, max_retries, node, state,
                    planner_in, critique, plan,
                    output_img, batch >>

SpecEdit == InitEdit /\ [][EditorCall]_vars

\* ------------------------------------------------------------------ claims

\* C1: with max_attempts = N >= 1, the attempts counter never exceeds N in any
\* reachable state of a run of either workflow.
C1_AttemptsBounded == max_attempts >= 1 => GetAttempts(state) <= max_attempts

C1_Witness == max_attempts >= 2 /\ node = "END" /\ GetAttempts(state) = max_attempts

\* C2: once a critic execution has returned is_realistic and is_minimal_edit both
\* true, the run is at its terminal state: the router does not go back to the
\* planner.
C2_SuccessTerminates ==
    (hist.iterations > 0 /\ ~critique.raised /\ BothTrue(critique.delta)) => node = "END"

\* C3: a run that ends without a raise has executed exactly min(k, max(N, 1))
\* iterations and ends with attempts equal to that number, k being the first
\* iteration whose critique returned both flags true (no bound if there is none).
C3_Expected ==
    IF hist.first_success = 0 THEN Max(max_attempts, 1)
    ELSE Min(hist.first_success, Max(max_attempts, 1))

C3_IterationCount ==
    node = "END" => hist.iterations = C3_Expected /\ GetAttempts(state) = C3_Expected

\* C4: when every stage call returns, the run reaches the terminal state; a run
\* in which a stage raises ends there. No run cycles for ever.
C4_Terminates == <>(node \in { "END", "error" })

C4_Witness == node = "END" /\ hist.iterations >= 2 /\ hist.planner_calls >= 2

\* C5: attempts changes only in a critic step, by exactly one, and always equals
\* the number of completed plan -> edit -> critique iterations.
C5_AttemptsCountIterations ==
    /\ [][ GetAttempts(state') # GetAttempts(state)
            => node = "critic" /\ GetAttempts(state') = GetAttempts(state) + 1 ]_vars
    /\ [](GetAttempts(state) = hist.iterations)

C5_Witness == node = "critic" /\ GetAttempts(state) = 1 /\ hist.planner_calls = 2

\* C6: a run starts at the planner and every step follows the cycle of its
\* variant: planner, baseline, critic (baseline) or planner, segmenter,
\* generator, critic (full); only the critic leads to END or back to the
\* planner. A raising stage ends the run instead.
CycleEdges(v) ==
    IF v = "baseline"
    THEN { <<"planner", "baseline">>, <<"baseline", "critic">>,
           <<"critic", "planner">>, <<"critic", "END">> }
    ELSE { <<"planner", "segmenter">>, <<"segmenter", "generator">>,
           <<"generator", "critic">>, <<"critic", "planner">>, <<"critic", "END">> }

C6_StageOrder ==
    /\ [](hist.planner_calls = 0 => node = "planner")
    /\ [][ node' = "error" \/ <<node, node'>> \in CycleEdges(variant) ]_vars

C6_Witness == variant = "full" /\ node = "planner" /\ hist.iterations >= 1

\* C7 as stated: whenever the state the critic node sees has used_mock true, the
\* node calls no backend and returns is_realistic false, is_minimal_edit false,
\* notes marking the mock output and attempts one more than before.
C7_ShortCircuitDelta ==
    /\ ~critique.raised
    /\ critique.delta["is_realistic"] = FALSE
    /\ critique.delta["is_minimal_edit"] = FALSE
    /\ critique.delta["critic_notes"] = "mock_output=true; skipping critique."
    /\ critique.delta["attempts"] = GetAttempts(state) + 1

C7_RequiredPresent ==
    /\ TruthyStr(GetStr(state, "image_path"))
    /\ TruthyStr(GetStr(state, "edited_image_path"))
    /\ TruthyStr(GetStr(state, "edit_plan"))
    /\ TruthyText(state["target_object"])

C8_UsedMockReachesCritic ==
    /\ node = "critic" => (GetFlag(state, "used_mock") <=> hist.edit_mock)
    /\ ~hist.critiqued_mock

\* C9: one image_edit_baseline call invokes the backend at most max_retries
\* times and stops at the first success; when all max_retries attempts fail with
\* a transient error it does not raise but returns the mock copy of the input
\* and leaves the used-mock flag true.
C9_Exhausted ==
    /\ edit.max_retries >= 1
    /\ Len(edit.log) = edit.max_retries
    /\ \A i \in 1..Len(edit.log) : edit.log[i] = "err"

C10_Usable(payload) ==
    /\ ~_normalize_result(payload).list
    /\ _normalize_result(payload).items[1] \in { "file", "url", "readable" }

C10_MalformedFallsBack ==
    (edit.ret # "none" /\ Len(edit.log) > 0 /\ edit.log[Len(edit.log)] = "ok"
        /\ ~C10_Usable(edit.payload))
        => edit.ret = "mock" /\ edit.used_mock /\ last_baseline_used_mock

\* C11: a stage called with a required input missing raises before any backend
\* call and returns nothing (attempts is not changed): the critic node when
\* image_path, edited_image_path, edit_plan or target_object is missing, the
\* generator node when mask_path is missing; so edited_image_path is present
\* whenever the critic backend is called.
C11_CriticInputMissing ==
    \/ ~TruthyStr(GetStr(state, "image_path"))
    \/ ~TruthyStr(GetStr(state, "edited_image_path"))
    \/ ~TruthyStr(GetStr(state, "edit_plan"))
    \/ ~TruthyText(state["target_object"])

C11_FailFast ==
    /\ (variant = "critic" /\ node # "call" /\ C11_CriticInputMissing)
          => node = "raised" /\ critique.raised /\ ~critique.called
    /\ (variant = "generator" /\ node # "call" /\ ~TruthyStr(GetStr(state, "mask_path")))
          => node = "raised" /\ edit.calls = 0 /\ edit.ret = "none"
               /\ GetAttempts(state) = 0 /\ GetStr(state, "edited_image_path") = None
    /\ critique.called => TruthyStr(GetStr(state, "edited_image_path"))

C11_Witness ==
    /\ variant = "generator" /\ node = "raised" /\ GetStr(state, "mask_path") = ""
    /\ ~mock /\ edit.calls = 0

\* C12: whatever raw text the planner returns (None, empty, whitespace only,
\* punctuation only, long), the target_object stored after planning is non-empty
\* and has between 1 and 4 whitespace-separated words, and it is "object" when
\* the raw text is None, blank or made of quotes and trailing punctuation only.
C12_LeavesNothing(raw) ==
    \/ raw = NoneText
    \/ \A i \in 1..Len(raw) : raw[i] \in Whitespace
    \/ \A i \in 1..Len(raw) : raw[i] \in { " ", ".", ",", "-", "\"", "'" }

C12_TargetObjectShape ==
    node = "returned"
        => /\ TruthyText(state["target_object"])
           /\ Len(split_words(state["target_object"])) \in 1..4
           /\ C12_LeavesNothing(plan.target_object) => state["target_object"] = ObjectText

C12_Witness ==
    /\ node = "returned"
    /\ Len(split_words(plan.target_object)) > 4
    /\ Len(split_words(state["target_object"])) = 4

\* C13: the sanitizer's output contains no parenthesis, bracket, brace, colon or
\* semicolon, and neither begins with nor is an article a / an / the, in any
\* letter case.
C13_Clean(text) ==
    /\ \A i \in 1..Len(text) : text[i] \notin { "(", ")", "[", "]", "{", "}", ":", ";" }
    /\ \A a \in Articles : ~startswith(lower(text), a)
    /\ \A a \in Articles : lower(text) # SubSeq(a, 1, Len(a) - 1)

C13_SanitizedClean == node = "returned" => C13_Clean(state["target_object"])

\* C14: for every reference size W x H and every edited image of positive size,
\* after _match_size the edited image is exactly W x H, and when it was resized
\* the resized image covers the reference in both dimensions and the crop box
\* lies inside it (nothing is padded).
C14_CoverCrop ==
    clock >= 1
        => /\ output_img.size = output_img.input
           /\ output_img.saves >= 1
                => /\ output_img.resized[1] >= output_img.input[1]
                   /\ output_img.resized[2] >= output_img.input[2]
                   /\ output_img.box[1] >= 0 /\ output_img.box[2] >= 0
                   /\ output_img.box[3] <= output_img.resized[1]
                   /\ output_img.box[4] <= output_img.resized[2]

C14_Witness ==
    /\ clock = 1 /\ output_img.saves = 1
    /\ output_img.resized[2] > output_img.input[2] + 1
    /\ output_img.box[2] > 0

\* C15: when the edited image already has the reference size _match_size does
\* not rewrite the file, so a second application after any first one leaves the
\* image as it is.
C15_Idempotent ==
    /\ [][ output_img.size = output_img.input => output_img' = output_img ]_vars
    /\ [][ clock >= 1 => output_img' = output_img ]_vars

C15_Witness == clock = 2 /\ output_img.saves = 1 /\ output_img.resized # output_img.input

\* C16: when _match_size fails inside image_edit_baseline the failure is
\* swallowed: the call returns the path of the edited image it wrote, the
\* used-mock flag stays false, and the baseline workflow goes on to the critic
\* with that path in its state.
C16_ResizeFailureSwallowed ==
    /\ [](edit.resize = "fail"
            => /\ edit.ret = "edited"
               /\ edit.path = timestamped_path("image_edit_baseline", clock - 1)
               /\ ~edit.used_mock /\ ~last_baseline_used_mock)
    /\ [][ (node = "baseline" /\ edit'.resize = "fail")
            => node' = "critic" /\ state'["edited_image_path"] = edit'.path ]_vars

C16_Witness ==
    /\ variant = "baseline" /\ node = "critic" /\ edit.resize = "fail"
    /\ state["edited_image_path"] = edit.path /\ hist.iterations = 1

\* C17: the first planner call of a run receives no prior plan and no feedback;
\* every later planner call receives the edit_plan the previous planner call
\* returned and the critic_notes the previous critique returned.
C17_CarriesContext ==
    [][ hist'.planner_calls = hist.planner_calls + 1
          => IF hist.planner_calls = 0
             THEN planner_in' = [prior_plan |-> None, critic_notes |-> None]
             ELSE /\ ~critique.raised
                  /\ planner_in'.prior_plan = plan.edit_plan
                  /\ planner_in'.critic_notes = critique.delta["critic_notes"] ]_vars

C17_Witness ==
    /\ hist.planner_calls = 2 /\ hist.iterations = 1
    /\ planner_in.prior_plan = "plan_1" /\ planner_in.critic_notes = "notes_1"

\* C18: no stage modifies image_path or target_attribute: in every reachable
\* state of a run, the final one included, they have their initial values.
C18_InputsImmutable ==
    /\ state["image_path"] = InitialState("img.png", "safety")["image_path"]
    /\ state["target_attribute"] = InitialState("img.png", "safety")["target_attribute"]

C18_Witness ==
    /\ node = "END" /\ hist.iterations >= 2
    /\ TruthyStr(state["edited_image_path"]) /\ state["image_path"] = "img.png"

\* C19: in a batch run a raised error for one image does not abort the batch:
\* every image is processed, and the final report has exactly one row per input
\* image, in input order, the row of a failed image having empty edit fields,
\* false flags and notes "ERROR: " followed by the error.
C19_RowFor(i) ==
    /\ batch.report[i].input_image_path = ImagePath(i)
    /\ batch.runs[i].raised
          => batch.report[i] = [ input_image_path |-> ImagePath(i), output_image_path |-> "",
                                 planner_edit_plan |-> "", planner_target_object |-> <<>>,
                                 critic_is_realistic |-> FALSE,
                                 critic_is_minimal_edit |-> FALSE,
                                 critic_notes |-> "ERROR: " \o batch.runs[i].err ]

C19_BatchContinues ==
    /\ ~batch.aborted
    /\ (batch.done /\ batch.images > 0)
          => /\ Len(batch.runs) = batch.images
             /\ batch.written /\ Len(batch.report) = batch.images
             /\ \A i \in 1..batch.images : C19_RowFor(i)

\* C20: with mock mode set, no capability call of a workflow run reaches an
\* external backend: the planner and critic backends are not called, the
\* editing stage makes no client.run call, and segmentation yields the synthetic
\* mask.
C20_MockModeOffline ==
    mock => /\ hist.planner_calls = 0
            /\ hist.critic_calls = 0
            /\ edit.calls = 0
            /\ hist.mask \in { "none", "mock" }

\* C21: an unparseable response, or one lacking a required field, makes the
\* planner yield the default plan and target "object" and the critic yield
\* false flags, neither raising; and a run whose planner produced the default
\* or an empty plan still completes its iteration: the critic executes,
\* attempts is incremented and the run ends by the router.
C21_Malformed(content, required) ==
    content.kind # "object" \/ \E k \in required : k \notin DOMAIN content.fields

C21_SafeDefaults ==
    /\ (hist.planner_calls = 1 /\ C21_Malformed(plan.content, { "edit_plan", "target_object" }))
          => /\ ~plan.raises
             /\ C21_Malformed(plan.content, { "edit_plan" })
                   => plan.edit_plan \in { "No plan generated", "" }
             /\ C21_Malformed(plan.content, { "target_object" })
                   => plan.target_object = ObjectText
    /\ (critique.called
            /\ C21_Malformed(critique.content, { "is_realistic", "is_minimal_edit", "notes" }))
          => /\ ~critique.raised
             /\ C21_Malformed(critique.content, { "is_realistic" })
                   => ~critique.delta["is_realistic"]
             /\ C21_Malformed(critique.content, { "is_minimal_edit" })
                   => ~critique.delta["is_minimal_edit"]
    /\ (hist.planner_calls = 1 /\ ~plan.raises
            /\ plan.edit_plan \in { "No plan generated", "" }
            /\ node \notin { "planner", "baseline", "critic" }
            /\ (critique.called => ~critique.raised))
          => node = "END" /\ hist.iterations = 1 /\ GetAttempts(state) = 1

\* C22: each image's run starts from a fresh AgentState (attempts 0, flags
\* false, no plan, edited image or notes), and nothing written during one image's
\* run shows in another's: every field of a run's state, and the used-mock flag
\* its editing stage reports, comes from that run's own image and stages, in
\* whatever order the runs are stepped.
C22_Own(i) ==
    LET run == batch.runs[i]
        st == run.state
    IN  run.node # "idle"
          => /\ st["image_path"] = ImagePath(i)
             /\ st["attempts"] = run.iterations
             /\ st["edit_plan"] = IF run.planner_calls = 0 THEN None
                                    ELSE RunText("plan", i, run.planner_calls)
             /\ st["critic_notes"] = IF run.iterations = 0 THEN None
                                       ELSE RunText("notes", i, run.iterations)
             /\ st["edited_image_path"] \in
                    { None } \cup { timestamped_path(stem, RunClock(i, k)) :
                                      stem \in { "image_edit_baseline", "mock", "inpaint" },
                                      k \in 1..max_attempts }
             /\ run.returned_mock = (variant = "baseline" /\ run.edit_mock)
             /\ run.planner_calls = 0 => st = InitialState(ImagePath(i), "safety")

C22_RunsIndependent == node = "runs" => \A i \in 1..batch.images : C22_Own(i)

C22_Witness ==
    /\ node = "runs" /\ variant = "baseline" /\ batch.images >= 2
    /\ batch.runs[1].node = "END" /\ batch.runs[1].edit_mock /\ batch.runs[1].iterations = 2
    /\ batch.runs[2].node = "planner" /\ batch.runs[2].planner_calls = 0

\* C23: each supported model's payload carries the input image under that
\* model's key (image_input for nano-banana-pro and seedream-4, input_images for
\* gpt-image-1.5, input_image for flux-kontext-max); within one edit call on
\* gpt-image-1.5 the first attempt uses input_images and every later attempt
\* uses image.
C23_ModelKey(model) ==
    CASE model = "google/nano-banana-pro" -> "image_input"
      [] model = "bytedance/seedream-4" -> "image_input"
      [] model = "openai/gpt-image-1.5" -> "input_images"
      [] model = "black-forest-labs/flux-kontext-max" -> "input_image"

C23_PayloadKeys ==
    edit.model \in SupportedModels =>
        \A a \in 1..Len(edit.keys) :
            edit.keys[a] # None =>
                edit.keys[a] = IF edit.model = "openai/gpt-image-1.5" /\ a > 1
                               THEN "image" ELSE C23_ModelKey(edit.model)

C23_Witness ==
    /\ edit.model = "openai/gpt-image-1.5"
    /\ edit.log = <<"err", "err", "ok">>
    /\ edit.keys = <<"input_images", "image", "image">>

\* C24: the suffix of the edited image's file is .jpg when the declared output
\* format spells jpg or jpeg in any letter case, and .png for every other
\* declared value and for an undeclared format.
C24_Spells(fmt, word) ==
    /\ fmt # NoneText
    /\ Len(fmt) = Len(word)
    /\ \A i \in 1..Len(word) : \E j \in 1..Len(LowerCase) :
            /\ LowerCase[j] = word[i]
            /\ fmt[i] \in { LowerCase[j], UpperCase[j] }

C24_SuffixFromFormat ==
    edit.ret = "edited" =>
        edit.suffix = IF \/ C24_Spells(edit.output_format, <<"j", "p", "g">>)
                         \/ C24_Spells(edit.output_format, <<"j", "p", "e", "g">>)
                      THEN ".jpg" ELSE ".png"

C24_Witness ==
    /\ edit.ret = "edited"
    /\ edit.output_format = <<"J", "p", "e", "g">>
    /\ edit.suffix = ".jpg"

\* C25: after a stage returns, every field of its delta (is_minimal_edit from
\* the critic and used_mock from the baseline editing stage included) holds the
\* returned value in the accumulated state, and every field absent from the
\* delta keeps its value.
C25_Holds(st, delta) == \A k \in DOMAIN delta : k \in DOMAIN st /\ st[k] = delta[k]

C25_Kept(old, new, delta) ==
    \A k \in DOMAIN old : k \notin DOMAIN delta => k \in DOMAIN new /\ new[k] = old[k]

C25_LastWriteWins ==
    [][ /\ (node = "critic" /\ node' # "error")
            => /\ C25_Holds(state', critique'.delta)
               /\ C25_Kept(state, state', critique'.delta)
        /\ (variant = "baseline" /\ node = "baseline" /\ node' # "error")
            => /\ C25_Holds(state', baseline_node(state, edit').delta)
               /\ C25_Kept(state, state', baseline_node(state, edit').delta) ]_vars

\* C26: when a run terminates, the final state and the result row built from it
\* carry the is_realistic, is_minimal_edit and critic_notes the last critic
\* execution returned, and the edited_image_path, edit_plan and target_object of
\* that same iteration.
C26_Row == result_row(state["image_path"], state)

C26_LastIteration ==
    /\ C26_Row.critic_is_realistic = critique.delta["is_realistic"]
    /\ C26_Row.critic_notes = critique.delta["critic_notes"]
    /\ C26_Row.output_image_path = edit.path
    /\ C26_Row.planner_edit_plan = plan.edit_plan
    /\ C26_Row.planner_target_object = _sanitize_target_object(plan.target_object)

C26_FinalReflectsLast ==
    node = "END" =>
        /\ C26_LastIteration
        /\ "is_minimal_edit" \in DOMAIN state
        /\ state["is_minimal_edit"] = critique.delta["is_minimal_edit"]
        /\ C26_Row.critic_is_minimal_edit = critique.delta["is_minimal_edit"]

\* C27: within one image_edit_baseline call the editor waits
\* retry_base_delay * 2^(k-1) after the k-th attempt when that attempt failed
\* with a transient error and k < max_retries, and at no other time: never after
\* a success nor after the final failed attempt. An exhausted call makes exactly
\* max_retries - 1 waits, each twice the one before.
C27_Waited == { k \in 1..Len(edit.log) : edit.log[k] = "err" /\ k < edit.max_retries }

C27_Backoff ==
    edit.ret # "none" =>
        /\ Len(edit.sleeps) = Cardinality(C27_Waited)
        /\ \A k \in C27_Waited :
              k <= Len(edit.sleeps) /\ edit.sleeps[k] = RetryBaseDelay * (2 ^ (k - 1))
        /\ C9_Exhausted =>
              /\ Len(edit.sleeps) = edit.max_retries - 1
              /\ \A k \in 1..(Len(edit.sleeps) - 1) : edit.sleeps[k + 1] = 2 * edit.sleeps[k]

C27_Witness ==
    /\ C9_Exhausted /\ edit.max_retries = 3
    /\ edit.ret = "mock"
    /\ edit.sleeps = << RetryBaseDelay, 2 * RetryBaseDelay >>

C29_Hard == { "ValueError", "io", "exc" }

C29_FirstOccurrence ==
    /\ \A i \in 1..Len(edit.log) : edit.log[i] \in C29_Hard \cup { "ok" } => i = Len(edit.log)
    /\ edit.calls = Cardinality({ i \in 1..Len(edit.log) : edit.log[i] \in { "err", "ok", "exc" } })
    /\ edit.path = None
    /\ ~edit.used_mock /\ ~last_baseline_used_mock

C30_Idempotent ==
    node = "returned" =>
        _sanitize_target_object(state["target_object"]) = state["target_object"]

====
